---- MODULE Spec2Model ----
(***************************************************************************)
(* Model of autohedger.py: the ledger (Trade, Position, Book, Portfolio),  *)
(* the strategy selector, the hedge quantity calculator with its execution *)
(* queue, and the driver loop Hedger.run_hedging.                          *)
(*                                                                         *)
(* Quantities are Python floats in the source.  Here they are exact        *)
(* fixed-point numbers: an integer n stands for the quantity n / Scale.    *)
(* Scale is a power of execution_chunks, so that every division by         *)
(* execution_chunks the program performs is exact.  Python dicts and       *)
(* Counters keep insertion order; they are modelled as sequences of        *)
(* <<key, value>> pairs with distinct keys.                                *)
(***************************************************************************)
EXTENDS Integers, Sequences, FiniteSets, TLC

VARIABLES
    client_trades,          \* Hedger.client_trades: rows sorted by trade_time
    start_time,             \* Hedger.start_time
    end_time,               \* Hedger.end_time
    client_book,            \* Hedger.client_book.positions
    hedge_book,             \* Hedger.hedge_book.positions
    execution_queue,        \* Hedger.execution_queue
    pc,                     \* position of the caller / of run_hedging
    hedger_time,            \* run_hedging: hedger_time
    last_cycle_time,        \* run_hedging: last_cycle_time
    client_trades_booked,   \* run_hedging: client_trades_booked
    client_position_change, \* run_hedging: client_position_change
    current_positions,      \* run_hedging: current_positions
    client_notional_change, \* run_hedging: client_notional_change
    current_strategy,       \* run_hedging: current_strategy
    hedge_quantities,       \* run_hedging: hedge_quantities
    strategy_quantities,    \* get_hedge_quantities: hedge_quantities before the pop
    stealth_hedges,         \* get_hedge_quantities: result of get_hedge_quantities_stealth
    popped,                 \* get_hedge_quantities: the entry popped, <<>> if none
    error,                  \* message of the exception raised by the last call, "" if none
    appended,               \* history: every entry appended to execution_queue, in order
    drained,                \* history: every entry popped from execution_queue, in order
    selected,               \* history: the strategy each cycle of run_hedging selected
    query_time,             \* the as_of_time of the last direct call of get_quantity
    returned                \* the last direct call of get_quantity: the position it was
                            \* called on and the quantity it returned, <<>> if none

vars == <<client_trades, start_time, end_time, client_book, hedge_book,
          execution_queue, pc, hedger_time, last_cycle_time,
          client_trades_booked, client_position_change, current_positions,
          client_notional_change, current_strategy, hedge_quantities,
          strategy_quantities, stealth_hedges, popped, error, appended, drained,
          selected, query_time, returned>>

----------------------------------------------------------------------------
(* Bounds of the model *)

MaxTrades == 2
MaxCallTrades == 2
MaxQueue == 10
MaxBooked == 2

----------------------------------------------------------------------------
(* Program constants *)

STRATEGY_SLOW == "SLOW"
STRATEGY_NORMAL == "NORMAL"
STRATEGY_STEALTH == "STEALTH"
SUPPORTED_STRATEGIES == {STRATEGY_SLOW, STRATEGY_NORMAL, STRATEGY_STEALTH}
SUPPORTED_ASSETS == <<"BTC", "ETH">>

client_volume_max == 100000
time_window == 10
client_volume_trigger == 10000000
execution_chunks == 5

TRADE_DIRECTION_BUY == "buy"
TRADE_DIRECTION_SELL == "sell"
CLIENT_BOOK == "CLIENT BOOK"
HEDGE_BOOK == "HEDGE BOOK"

\* Exchange.close_prices, as the test suite mocks Exchange.get_close_prices
close_prices == [asset \in {"BTC", "ETH"} |-> IF asset = "BTC" THEN 30000 ELSE 1800]

\* as_of_time=None / start_time = None
None == -1

\* minutes of the client trades
TradeTimes == {1, 2}

\* One whole unit of quantity, in fixed-point units.  Every STEALTH decision
\* divides by execution_chunks once, and a STEALTH decision needs a cycle
\* that books a client trade.
Scale == execution_chunks ^ Cardinality(TradeTimes)

----------------------------------------------------------------------------
(* Inputs: the rows of the client trades file *)

Assets == {SUPPORTED_ASSETS[i] : i \in DOMAIN SUPPORTED_ASSETS}

\* whole quantities: at price 50000, 1 is below client_volume_max, 2 is exactly
\* client_volume_max, 201 is above client_volume_trigger
FeedQuantities == {-201, -1, 1, 2, 201}

FeedPrices == {50000}

Rows == [trade_time : TradeTimes, asset : Assets,
         quantity : {q * Scale : q \in FeedQuantities},
         price : FeedPrices, denominated : {"USD"}]

\* the feed of end-to-end scenario C: a single buy of 400 BTC at 30000
ScenarioC ==
    << [trade_time |-> 1, asset |-> "BTC", quantity |-> 400 * Scale,
        price |-> 30000, denominated |-> "USD"] >>

Files == UNION {[1..n -> Rows] : n \in 1..MaxTrades} \cup {ScenarioC}

----------------------------------------------------------------------------
(* dict and Counter *)

RECURSIVE SumSeq(_)
SumSeq(s) == IF s = <<>> THEN 0 ELSE Head(s) + SumSeq(Tail(s))

Keys(d) == {d[i][1] : i \in DOMAIN d}

Get(d, k) == d[CHOOSE i \in DOMAIN d : d[i][1] = k][2]

GetOr(d, k, default) == IF k \in Keys(d) THEN Get(d, k) ELSE default

\* d[k] = v
Put(d, k, v) ==
    IF k \in Keys(d)
    THEN [i \in DOMAIN d |-> IF d[i][1] = k THEN <<k, v>> ELSE d[i]]
    ELSE Append(d, <<k, v>>)

\* dict.update(m): every key of m is set to m's value
RECURSIVE dict_update(_, _)
dict_update(d, m) ==
    IF m = <<>> THEN d
    ELSE dict_update(Put(d, m[1][1], m[1][2]), Tail(m))

\* Counter.update(m): every value of m is added to the count of its key
RECURSIVE Counter_update(_, _)
Counter_update(c, m) ==
    IF m = <<>> THEN c
    ELSE Counter_update(Put(c, m[1][1], GetOr(c, m[1][1], 0) + m[1][2]), Tail(m))

----------------------------------------------------------------------------
(* Trade, Position, Book, Portfolio *)

Trade(book, trade_time, asset, denominated, quantity, price) ==
    [book |-> book,
     direction |-> IF quantity >= 0 THEN TRADE_DIRECTION_BUY ELSE TRADE_DIRECTION_SELL,
     trade_time |-> trade_time, asset |-> asset, denominated |-> denominated,
     quantity |-> quantity, price |-> price]

Position(asset) == [asset |-> asset, quantity |-> 0, trades |-> <<>>]

\* faulty variant: the trade is appended but the running total is not updated
Position_trade_add_NoTotal(position, trade) ==
    [position EXCEPT !.trades = Append(@, trade)]

Position_trade_add(position, trade) ==
    [position EXCEPT !.trades = Append(@, trade),
                     !.quantity = @ + trade.quantity]

Book_trade_add(positions, trade) ==
    LET asset == trade.asset
        created == IF asset \notin Keys(positions)
                   THEN Put(positions, asset, Position(asset))
                   ELSE positions
    IN  Put(created, asset, Position_trade_add(Get(created, asset), trade))

\* faulty variant: the trades at as_of_time itself are left out
Position_get_trades_Strict(position, as_of_time) ==
    SelectSeq(position.trades, LAMBDA t : t.trade_time < as_of_time)

\* faulty variant: the trades are taken to be in the order of their times, and
\* the filter stops at the first trade after as_of_time
Position_get_trades_Prefix(position, as_of_time) ==
    LET trades == position.trades
        late == {i \in DOMAIN trades : trades[i].trade_time > as_of_time}
    IN  IF late = {} THEN trades
        ELSE SubSeq(trades, 1, (CHOOSE i \in late : \A j \in late : i <= j) - 1)

\* Position.get_trades(as_of_time): the trades with trade_time <= as_of_time
Position_get_trades(position, as_of_time) ==
    SelectSeq(position.trades, LAMBDA t : t.trade_time <= as_of_time)

Position_get_quantity(position, as_of_time) ==
    IF as_of_time = None
    THEN position.quantity
    ELSE LET trades == Position_get_trades(position, as_of_time)
         IN  SumSeq([i \in DOMAIN trades |-> trades[i].quantity])

Book_get_positions(positions, as_of_time) ==
    [i \in DOMAIN positions |->
        <<positions[i][1], Position_get_quantity(positions[i][2], as_of_time)>>]

RECURSIVE net_positions_from(_, _, _)
net_positions_from(counter, books, as_of_time) ==
    IF books = <<>> THEN counter
    ELSE net_positions_from(
            Counter_update(counter, Book_get_positions(Head(books), as_of_time)),
            Tail(books), as_of_time)

\* faulty variant: the assets whose quantities sum to zero are dropped, as the
\* addition of Counters drops them
net_positions_DropZero(books, as_of_time) ==
    SelectSeq(net_positions_from(<<>>, books, as_of_time), LAMBDA p : p[2] # 0)

\* Portfolio.net_positions
net_positions(books, as_of_time) == net_positions_from(<<>>, books, as_of_time)

\* faulty variant: the trade carries the time of the cycle before
Exchange_at_market_order_Early(book, asset, quantity, trade_time) ==
    Trade(book, trade_time - 1, asset, "USD", quantity, close_prices[asset])

Exchange_at_market_order(book, asset, quantity, trade_time) ==
    Trade(book, trade_time, asset, "USD", quantity, close_prices[asset])

----------------------------------------------------------------------------
(* Hedger: the feed *)

\* the "notional" column: quantity * price; a row's quantity is whole
Notional(row) == (row.quantity \div Scale) * row.price

IsSortedByTime(rows) ==
    \A i \in DOMAIN rows : \A j \in DOMAIN rows :
        i < j => rows[i].trade_time <= rows[j].trade_time

\* DataFrame.sort_values(by="trade_time"): some time-sorted permutation of the rows
sort_values(rows) ==
    LET n == Len(rows)
        perms == {f \in [1..n -> 1..n] : \A i \in 1..n : \E j \in 1..n : f[j] = i}
    IN  {s \in {[i \in 1..n |-> rows[f[i]]] : f \in perms} : IsSortedByTime(s)}

MinTime(rows) == CHOOSE t \in {rows[i].trade_time : i \in DOMAIN rows} :
                    \A i \in DOMAIN rows : t <= rows[i].trade_time

MaxTime(rows) == CHOOSE t \in {rows[i].trade_time : i \in DOMAIN rows} :
                    \A i \in DOMAIN rows : t >= rows[i].trade_time

\* faulty variant: the window is closed at its start
client_trades_by_time_Closed(rows, start, end) ==
    SelectSeq(rows, LAMBDA r : r.trade_time >= start /\ r.trade_time <= end)

client_trades_by_time(rows, start, end) ==
    SelectSeq(rows, LAMBDA r : r.trade_time > start /\ r.trade_time <= end)

RECURSIVE book_rows(_, _)
book_rows(positions, rows) ==
    IF rows = <<>> THEN positions
    ELSE book_rows(
            Book_trade_add(positions,
                Trade(CLIENT_BOOK, rows[1].trade_time, rows[1].asset,
                      rows[1].denominated, rows[1].quantity, rows[1].price)),
            Tail(rows))

\* Hedger.book_client_trades: the client book after the booking
book_client_trades(positions, rows, start, end) ==
    book_rows(positions, client_trades_by_time(rows, start, end))

RECURSIVE trades_net_by_position(_)
trades_net_by_position(trades) ==
    IF trades = <<>> THEN <<>>
    ELSE LET n == Len(trades)
             last == trades[n]
         IN  Counter_update(trades_net_by_position(SubSeq(trades, 1, n - 1)),
                            << <<last.asset, last.quantity>> >>)

RECURSIVE trades_net_by_notional(_)
trades_net_by_notional(trades) ==
    IF trades = <<>> THEN <<>>
    ELSE LET n == Len(trades)
             last == trades[n]
         IN  Counter_update(trades_net_by_notional(SubSeq(trades, 1, n - 1)),
                            << <<last.asset, Notional(last)>> >>)

----------------------------------------------------------------------------
(* Hedger: strategy selection *)

\* faulty variant: the volume is the sum of the absolute notionals
recent_client_volume_Absolute(rows, sampling_window, as_of_time) ==
    LET end == as_of_time
        start == end - sampling_window
        filtered == client_trades_by_time(rows, start, end)
    IN  SumSeq([i \in DOMAIN filtered |->
                    IF Notional(filtered[i]) < 0 THEN 0 - Notional(filtered[i])
                    ELSE Notional(filtered[i])])

recent_client_volume(rows, sampling_window, as_of_time) ==
    LET end == as_of_time
        start == end - sampling_window
        filtered == client_trades_by_time(rows, start, end)
    IN  SumSeq([i \in DOMAIN filtered |-> Notional(filtered[i])])

\* faulty variant: STEALTH is kept while the execution queue holds entries
get_current_strategy_QueueAware(rows, time, notional_change) ==
    IF execution_queue # <<>>
    THEN STRATEGY_STEALTH
    ELSE IF recent_client_volume(rows, time_window, time) < client_volume_max
         THEN STRATEGY_SLOW
         ELSE IF SumSeq([i \in DOMAIN notional_change |-> notional_change[i][2]])
                    > client_volume_trigger
              THEN STRATEGY_STEALTH
              ELSE STRATEGY_NORMAL

\* faulty variant: the STEALTH condition is checked before the SLOW condition
get_current_strategy_StealthFirst(rows, time, notional_change) ==
    IF SumSeq([i \in DOMAIN notional_change |-> notional_change[i][2]])
            > client_volume_trigger
    THEN STRATEGY_STEALTH
    ELSE IF recent_client_volume(rows, time_window, time) < client_volume_max
         THEN STRATEGY_SLOW
         ELSE STRATEGY_NORMAL

\* faulty variant: a notional change equal to the trigger selects STEALTH
get_current_strategy_TriggerInclusive(rows, time, notional_change) ==
    IF recent_client_volume(rows, time_window, time) < client_volume_max
    THEN STRATEGY_SLOW
    ELSE IF SumSeq([i \in DOMAIN notional_change |-> notional_change[i][2]])
                >= client_volume_trigger
         THEN STRATEGY_STEALTH
         ELSE STRATEGY_NORMAL

get_current_strategy(rows, time, notional_change) ==
    IF recent_client_volume(rows, time_window, time) < client_volume_max
    THEN STRATEGY_SLOW
    ELSE IF SumSeq([i \in DOMAIN notional_change |-> notional_change[i][2]])
                > client_volume_trigger
         THEN STRATEGY_STEALTH
         ELSE STRATEGY_NORMAL

----------------------------------------------------------------------------
(* Hedger: hedge quantities *)

\* faulty variant: the change is returned as it is, not negated
get_hedge_quantities_normal_NoNegate(positions) ==
    SelectSeq(positions, LAMBDA p : p[2] # 0)

\* faulty variant: zero changes are not omitted
get_hedge_quantities_normal_KeepZero(positions) ==
    [i \in DOMAIN positions |-> <<positions[i][1], (-1) * positions[i][2]>>]

get_hedge_quantities_normal(positions) ==
    LET nonzero == SelectSeq(positions, LAMBDA p : p[2] # 0)
    IN  [i \in DOMAIN nonzero |-> <<nonzero[i][1], (-1) * nonzero[i][2]>>]

\* faulty variant: every chunk is the whole hedge
stealth_chunks_Undivided(asset, quantity) ==
    LET chunks == execution_chunks
        multiplier == IF quantity >= 0 THEN -1 ELSE 1
    IN  [chunk \in 1..chunks |-> << <<asset, multiplier * quantity>> >>]

\* the list of chunks of one asset
stealth_chunks(asset, quantity) ==
    LET chunks == execution_chunks
        multiplier == IF quantity >= 0 THEN -1 ELSE 1
    IN  [chunk \in 1..chunks |-> << <<asset, (multiplier * quantity) \div chunks>> >>]

\* faulty variant: the lists are concatenated, one asset after the other
Interleave_Concat(lists) ==
    LET n == Len(lists)
        len == IF n = 0 THEN 0
               ELSE CHOOSE l \in {Len(lists[j]) : j \in 1..n} :
                        \A j \in 1..n : l <= Len(lists[j])
    IN  [i \in 1..(n * len) |-> lists[((i - 1) \div len) + 1][((i - 1) % len) + 1]]

\* [val for tup in zip(*lists) for val in tup]
Interleave(lists) ==
    LET n == Len(lists)
        len == IF n = 0 THEN 0
               ELSE CHOOSE l \in {Len(lists[j]) : j \in 1..n} :
                        \A j \in 1..n : l <= Len(lists[j])
    IN  [i \in 1..(n * len) |-> lists[((i - 1) % n) + 1][((i - 1) \div n) + 1]]

get_hedge_quantities_stealth(positions) ==
    Interleave([j \in DOMAIN positions |->
                    stealth_chunks(positions[j][1], positions[j][2])])

\* faulty variant: SLOW hedges the change of the cycle as NORMAL does
strategy_hedge_quantities_SlowHedges(strategy, position_change) ==
    IF strategy \in {STRATEGY_NORMAL, STRATEGY_SLOW}
    THEN get_hedge_quantities_normal(position_change)
    ELSE <<>>

\* the quantities of the strategy, before the queue is looked at
strategy_hedge_quantities(strategy, position_change) ==
    IF strategy = STRATEGY_NORMAL
    THEN get_hedge_quantities_normal(position_change)
    ELSE <<>>

\* faulty variant: SLOW queues the chunks of the current positions as STEALTH
\* does
strategy_queue_entries_SlowQueues(strategy, positions) ==
    IF strategy \in {STRATEGY_STEALTH, STRATEGY_SLOW}
    THEN get_hedge_quantities_stealth(positions)
    ELSE <<>>

\* the entries a strategy appends to the queue
strategy_queue_entries(strategy, positions) ==
    IF strategy = STRATEGY_STEALTH
    THEN get_hedge_quantities_stealth(positions)
    ELSE <<>>

\* faulty variant: every hedge is appended twice
queue_append_Twice(queue, hedges) == queue \o hedges \o hedges

\* for hedge in ...: self.execution_queue.append(hedge)
queue_append(queue, hedges) == queue \o hedges

\* faulty variant: self.execution_queue.pop()
queue_pop_Last(queue) ==
    [entry |-> queue[Len(queue)], rest |-> SubSeq(queue, 1, Len(queue) - 1)]

\* self.execution_queue.pop(0)
queue_pop(queue) == [entry |-> Head(queue), rest |-> Tail(queue)]

\* hedge_quantities.update(entry): NORMAL leaves a plain dict in
\* hedge_quantities, the other strategies the Counter
merge_popped(strategy, quantities, entry) ==
    IF strategy = STRATEGY_NORMAL
    THEN dict_update(quantities, entry)
    ELSE Counter_update(quantities, entry)

\* Hedger.get_hedge_quantities from its if-chain on, applied to the queue:
\* what it returns and the queue it leaves
hedge_quantities_of(queue, positions, position_change, strategy) ==
    LET quantities == strategy_hedge_quantities(strategy, position_change)
        stealth == strategy_queue_entries(strategy, positions)
        queued == queue_append(queue, stealth)
        pop == queue_pop(queued)
    IN  IF Len(queued) > 0
        THEN [error |-> "",
              hedge_quantities |-> merge_popped(strategy, quantities, pop.entry),
              execution_queue |-> pop.rest,
              strategy_quantities |-> quantities,
              stealth_hedges |-> stealth, popped |-> pop.entry]
        ELSE [error |-> "", hedge_quantities |-> quantities,
              execution_queue |-> queued,
              strategy_quantities |-> quantities,
              stealth_hedges |-> stealth, popped |-> <<>>]

\* faulty variant: the label is not checked and an unknown label falls
\* through the if-chain
get_hedge_quantities_NoCheck(queue, positions, position_change, strategy) ==
    hedge_quantities_of(queue, positions, position_change, strategy)

\* Hedger.get_hedge_quantities: what it raises, what it returns and the
\* queue it leaves
get_hedge_quantities(queue, positions, position_change, strategy) ==
    IF strategy \notin SUPPORTED_STRATEGIES
    THEN [error |-> "Unknown hedging strategy", hedge_quantities |-> <<>>,
          execution_queue |-> queue, strategy_quantities |-> <<>>,
          stealth_hedges |-> <<>>, popped |-> <<>>]
    ELSE hedge_quantities_of(queue, positions, position_change, strategy)

RECURSIVE place_hedge_orders(_, _, _)
place_hedge_orders(positions, hedge_positions, trade_time) ==
    IF hedge_positions = <<>> THEN positions
    ELSE place_hedge_orders(
            Book_trade_add(positions,
                Exchange_at_market_order(HEDGE_BOOK, hedge_positions[1][1],
                                         hedge_positions[1][2], trade_time)),
            Tail(hedge_positions), trade_time)

\* faulty variant: "and" for "or"
LoopCondition_And(time, end, queue) == time <= end /\ Len(queue) > 0

\* the condition of the while loop of run_hedging
LoopCondition(time, end, queue) == time <= end \/ Len(queue) > 0

----------------------------------------------------------------------------
(* The program: Hedger(file).run() *)

Init ==
    /\ client_trades = <<>>
    /\ start_time = None
    /\ end_time = None
    /\ client_book = <<>>
    /\ hedge_book = <<>>
    /\ execution_queue = <<>>
    /\ pc = "init"
    /\ hedger_time = None
    /\ last_cycle_time = None
    /\ client_trades_booked = <<>>
    /\ client_position_change = <<>>
    /\ current_positions = <<>>
    /\ client_notional_change = <<>>
    /\ current_strategy = ""
    /\ hedge_quantities = <<>>
    /\ strategy_quantities = <<>>
    /\ stealth_hedges = <<>>
    /\ popped = <<>>
    /\ error = ""
    /\ appended = <<>>
    /\ drained = <<>>
    /\ selected = <<>>
    /\ query_time = None
    /\ returned = <<>>

locals == <<client_trades_booked, client_position_change, current_positions,
            client_notional_change, current_strategy, hedge_quantities,
            strategy_quantities, stealth_hedges, popped>>

\* what only the direct calls of get_quantity write
queried == <<query_time, returned>>

\* Hedger.load_client_trades on the rows of the file
load_client_trades(file) ==
    /\ client_trades' \in sort_values(file)
    /\ start_time' = MinTime(file) - 1
    /\ end_time' = MaxTime(file)

\* run(): load_client_trades, then run_hedging up to its loop
Run ==
    /\ pc = "init"
    /\ \E file \in Files : load_client_trades(file)
    /\ hedger_time' = start_time'
    /\ pc' = "loop"
    /\ UNCHANGED <<queried, selected,
                   client_book, hedge_book, execution_queue, last_cycle_time,
                   locals, error, appended, drained>>

\* the effect of a call of get_hedge_quantities on the hedger and on the
\* variables that receive its outcome
Apply_get_hedge_quantities(positions, position_change, strategy) ==
    LET r == get_hedge_quantities(execution_queue, positions, position_change, strategy)
    IN  /\ execution_queue' = r.execution_queue
        /\ hedge_quantities' = r.hedge_quantities
        /\ strategy_quantities' = r.strategy_quantities
        /\ stealth_hedges' = r.stealth_hedges
        /\ popped' = r.popped
        /\ error' = r.error
        /\ appended' = appended \o r.stealth_hedges
        /\ drained' = IF r.popped = <<>> THEN drained ELSE Append(drained, r.popped)

\* steps 0 to 4 of a cycle: advance the clock, book the client trades of the
\* minute, read the net positions, select the strategy, get the quantities
Cycle ==
    /\ pc = "loop"
    /\ LoopCondition(hedger_time, end_time, execution_queue)
    /\ last_cycle_time' = hedger_time
    /\ hedger_time' = hedger_time + 1
    /\ client_trades_booked' =
            client_trades_by_time(client_trades, last_cycle_time', hedger_time')
    /\ client_book' =
            book_client_trades(client_book, client_trades, last_cycle_time', hedger_time')
    /\ client_position_change' = trades_net_by_position(client_trades_booked')
    /\ current_positions' = net_positions(<<client_book', hedge_book>>, None)
    /\ client_notional_change' = trades_net_by_notional(client_trades_booked')
    /\ current_strategy' =
            get_current_strategy(client_trades, hedger_time', client_notional_change')
    /\ Apply_get_hedge_quantities(current_positions', client_position_change',
                                  current_strategy')
    /\ selected' = Append(selected, current_strategy')
    /\ pc' = "orders"
    /\ UNCHANGED <<queried, client_trades, start_time, end_time, hedge_book>>

\* step 5
PlaceOrders ==
    /\ pc = "orders"
    /\ hedge_book' = place_hedge_orders(hedge_book, hedge_quantities, hedger_time)
    /\ pc' = "loop"
    /\ UNCHANGED <<queried, selected,
                   client_trades, start_time, end_time, client_book,
                   execution_queue, hedger_time, last_cycle_time, locals, error,
                   appended, drained>>

\* the loop condition is false: run_hedging returns True
Return ==
    /\ pc = "loop"
    /\ ~LoopCondition(hedger_time, end_time, execution_queue)
    /\ pc' = "done"
    /\ UNCHANGED <<queried, selected,
                   client_trades, start_time, end_time, client_book, hedge_book,
                   execution_queue, hedger_time, last_cycle_time, locals, error,
                   appended, drained>>

Next ==
    \/ Run
    \/ Cycle
    \/ PlaceOrders
    \/ Return

Spec == Init /\ [][Next]_vars

\* a step of run_hedging: Cycle, PlaceOrders and Return are the steps that
\* change pc, and one of them is enabled whenever pc is "loop" or "orders"
RunHedgingStep ==
    /\ pc \in {"loop", "orders"}
    /\ pc' \in {"loop", "orders", "done"}
    /\ pc' # pc

\* run_hedging is sequential code: once entered, it keeps taking steps until
\* it returns
FairSpec == Spec /\ WF_pc(RunHedgingStep)

----------------------------------------------------------------------------
(* Direct calls of the methods on a Hedger, as a test makes them *)

\* the files of the direct calls: one asset, the second trade time
\* time_window minutes after the first
CallRows == [trade_time : {1, 1 + time_window}, asset : {"BTC"},
             quantity : {q * Scale : q \in {-1, 1, 2, 201}},
             price : FeedPrices, denominated : {"USD"}]

CallFiles == UNION {[1..n -> CallRows] : n \in 1..MaxCallTrades}

\* Hedger.load_client_trades()
CallLoadClientTrades ==
    /\ pc = "init"
    /\ \E file \in CallFiles : load_client_trades(file)
    /\ pc' = "loaded"
    /\ UNCHANGED <<queried, selected,
                   client_book, hedge_book, execution_queue, hedger_time,
                   last_cycle_time, locals, error, appended, drained>>

\* Hedger.book_client_trades(hedger.start_time, hedger.end_time)
CallBookClientTrades ==
    /\ pc = "loaded"
    /\ client_book = <<>>
    /\ client_trades_booked' = client_trades_by_time(client_trades, start_time, end_time)
    /\ client_book' = book_client_trades(client_book, client_trades, start_time, end_time)
    /\ UNCHANGED <<queried, selected,
                   client_trades, start_time, end_time, hedge_book, execution_queue,
                   pc, hedger_time, last_cycle_time, client_position_change,
                   current_positions, client_notional_change, current_strategy,
                   hedge_quantities, strategy_quantities, stealth_hedges, popped,
                   error, appended, drained>>

CallTimes == {0, 1, time_window, time_window + 1, 2 * time_window,
              2 * time_window + 1}

NotionalChanges ==
    { <<>>,
      << <<"BTC", client_volume_trigger>> >>,
      << <<"BTC", client_volume_trigger + 1>> >>,
      << <<"BTC", 2 * client_volume_trigger>>, <<"ETH", 0 - client_volume_trigger>> >>,
      << <<"ETH", 3 * client_volume_trigger>>, <<"BTC", 0 - client_volume_trigger>> >> }

\* Hedger.get_current_strategy(hedger_time, client_notional_change)
CallGetCurrentStrategy ==
    /\ pc = "loaded"
    /\ \E time \in CallTimes : \E notional_change \in NotionalChanges :
        /\ hedger_time' = time
        /\ client_notional_change' = notional_change
        /\ current_strategy' = get_current_strategy(client_trades, time, notional_change)
    /\ UNCHANGED <<queried, selected,
                   client_trades, start_time, end_time, client_book, hedge_book,
                   execution_queue, pc, last_cycle_time, client_trades_booked,
                   client_position_change, current_positions, hedge_quantities,
                   strategy_quantities, stealth_hedges, popped, error,
                   appended, drained>>

NextStrategy ==
    \/ CallLoadClientTrades
    \/ CallBookClientTrades
    \/ CallGetCurrentStrategy

SpecStrategy == Init /\ [][NextStrategy]_vars

Labels == SUPPORTED_STRATEGIES \cup {"BAD"}

PositionArgs ==
    { <<>>,
      << <<"BTC", 0 - Scale>> >>,
      << <<"BTC", Scale>>, <<"ETH", 0 - 2 * Scale>> >>,
      << <<"ETH", 2 * Scale>>, <<"BTC", 0>> >> }

ChangeArgs ==
    { <<>>,
      << <<"BTC", Scale>> >>,
      << <<"BTC", 0>>, <<"ETH", 2 * Scale>> >>,
      << <<"ETH", Scale>>, <<"BTC", 0 - Scale>> >> }

\* Hedger.get_hedge_quantities(current_positions, client_position_change, strategy)
CallGetHedgeQuantities ==
    /\ pc = "init"
    /\ \E positions \in PositionArgs : \E position_change \in ChangeArgs :
       \E strategy \in Labels :
        /\ Len(appended) + Len(strategy_queue_entries(strategy, positions)) <= MaxQueue
        /\ current_positions' = positions
        /\ client_position_change' = position_change
        /\ current_strategy' = strategy
        /\ Apply_get_hedge_quantities(positions, position_change, strategy)
    /\ UNCHANGED <<queried, selected,
                   client_trades, start_time, end_time, client_book, hedge_book,
                   pc, hedger_time, last_cycle_time, client_trades_booked,
                   client_notional_change>>

NextQuantities == CallGetHedgeQuantities

SpecQuantities == Init /\ [][NextQuantities]_vars

TradeArgs ==
    {Trade(book, time, asset, "USD", quantity * Scale, 50000) :
        book \in {CLIENT_BOOK, HEDGE_BOOK}, time \in {1, 2}, asset \in Assets,
        quantity \in {-1, 2}}

TradeCount(positions) ==
    SumSeq([i \in DOMAIN positions |-> Len(positions[i][2].trades)])

\* Book.trade_add(trade) on the client book
CallClientBookTradeAdd ==
    /\ pc = "init"
    /\ TradeCount(client_book) + TradeCount(hedge_book) < MaxBooked
    /\ \E trade \in TradeArgs : client_book' = Book_trade_add(client_book, trade)
    /\ UNCHANGED <<queried, selected,
                   client_trades, start_time, end_time, hedge_book, execution_queue,
                   pc, hedger_time, last_cycle_time, locals, error, appended, drained>>

\* Book.trade_add(trade) on the hedge book
CallHedgeBookTradeAdd ==
    /\ pc = "init"
    /\ TradeCount(client_book) + TradeCount(hedge_book) < MaxBooked
    /\ \E trade \in TradeArgs : hedge_book' = Book_trade_add(hedge_book, trade)
    /\ UNCHANGED <<queried, selected,
                   client_trades, start_time, end_time, client_book, execution_queue,
                   pc, hedger_time, last_cycle_time, locals, error, appended, drained>>

\* the as_of_time arguments of the direct calls
QueryTimes == {None, 0, 1, 2}

\* Position.get_quantity(as_of_time) on a position of one of the books
CallGetQuantity ==
    /\ pc = "init"
    /\ \E positions \in {client_book, hedge_book} : \E i \in DOMAIN positions :
       \E time \in QueryTimes :
        /\ query_time' = time
        /\ returned' = [position |-> positions[i][2],
                        quantity |-> Position_get_quantity(positions[i][2], time)]
    /\ UNCHANGED <<selected, client_trades, start_time, end_time, client_book,
                   hedge_book, execution_queue, pc, hedger_time, last_cycle_time,
                   locals, error, appended, drained>>

NextLedger ==
    \/ CallClientBookTradeAdd
    \/ CallHedgeBookTradeAdd
    \/ CallGetQuantity

SpecLedger == Init /\ [][NextLedger]_vars

----------------------------------------------------------------------------
(* Properties *)

\* the entries of a list of hedges that are for one asset
ChunksOf(hedges, asset) == SelectSeq(hedges, LAMBDA h : h[1][1] = asset)

SumValues(d) == SumSeq([i \in DOMAIN d |-> d[i][2]])

\* C1: on every STEALTH decision, for every asset of the net-position
\* snapshot (positive, zero or negative), get_hedge_quantities_stealth
\* produces exactly execution_chunks chunks, all equal, whose sum is the
\* negation of the asset's net position.
StealthChunksNegatePosition ==
    (pc = "orders" /\ current_strategy = STRATEGY_STEALTH) =>
        \A j \in DOMAIN current_positions :
            LET chunks == ChunksOf(stealth_hedges, current_positions[j][1])
            IN  /\ Len(chunks) = execution_chunks
                /\ \A i \in DOMAIN chunks : chunks[i] = chunks[1]
                /\ SumSeq([i \in DOMAIN chunks |-> chunks[i][1][2]])
                        = 0 - current_positions[j][2]

\* C2: whatever the strategy, when the queue is not empty after the
\* strategy's processing, get_hedge_quantities removes exactly the front entry
\* and adds its quantity to the strategy's quantity for the entry's asset (0 if
\* absent), leaving the quantities of the other assets as they are.
PopMergesAdditively ==
    [][(pc = "loop" /\ pc' = "orders") =>
        LET queued == execution_queue \o stealth_hedges'
            entry == Head(queued)
            asset == entry[1][1]
        IN  queued # <<>> =>
                /\ execution_queue' = Tail(queued)
                /\ Keys(hedge_quantities') = Keys(strategy_quantities') \cup {asset}
                /\ Get(hedge_quantities', asset)
                        = GetOr(strategy_quantities', asset, 0) + entry[1][2]
                /\ \A other \in Keys(strategy_quantities') \ {asset} :
                        Get(hedge_quantities', other) = Get(strategy_quantities', other)
      ]_vars

BookConsistent(positions) ==
    \A i \in DOMAIN positions :
        LET position == positions[i][2]
        IN  /\ position.quantity
                    = SumSeq([k \in DOMAIN position.trades |-> position.trades[k].quantity])
            /\ \A k \in DOMAIN position.trades :
                    position.trades[k].asset = positions[i][1]

\* C3: after any sequence of bookings, every Position's quantity is the sum of
\* the quantities of its trades, and every trade of the Position stored under
\* asset a has asset a.
LedgerInvariant == BookConsistent(client_book) /\ BookConsistent(hedge_book)

\* a position that holds a client trade and a hedge trade
LedgerInvariantWitness ==
    \E i \in DOMAIN hedge_book :
        LET trades == hedge_book[i][2].trades
        IN  /\ Len(trades) >= 2
            /\ trades[1].book # trades[2].book
            /\ hedge_book[i][2].quantity # 0

\* the notional of the rows of the feed with time - time_window < trade_time <= time
RECURSIVE WindowVolumeFrom(_, _)
WindowVolumeFrom(i, time) ==
    IF i > Len(client_trades) THEN 0
    ELSE (IF /\ client_trades[i].trade_time > time - time_window
             /\ client_trades[i].trade_time <= time
          THEN (client_trades[i].quantity * client_trades[i].price) \div Scale
          ELSE 0) + WindowVolumeFrom(i + 1, time)

WindowVolume(time) == WindowVolumeFrom(1, time)

\* C4: if the rolling volume of the trailing time_window minutes is strictly
\* below client_volume_max, get_current_strategy returns SLOW whatever the
\* notional change.
SlowDominates ==
    (current_strategy # "" /\ WindowVolume(hedger_time) < client_volume_max)
        => current_strategy = STRATEGY_SLOW

\* SLOW returned although the notional change is above the STEALTH trigger,
\* for a feed that has a trade outside the window
SlowDominatesWitness ==
    /\ current_strategy = STRATEGY_SLOW
    /\ SumValues(client_notional_change) > client_volume_trigger
    /\ \E i \in DOMAIN client_trades :
            client_trades[i].trade_time <= hedger_time - time_window

\* C5: with a rolling volume not below client_volume_max the result is
\* STEALTH exactly when the signed sum of the notional changes is strictly
\* above client_volume_trigger, NORMAL otherwise; the result is always one of
\* the three strategies.
StrategyThresholds ==
    current_strategy # "" =>
        /\ current_strategy \in SUPPORTED_STRATEGIES
        /\ WindowVolume(hedger_time) >= client_volume_max =>
            /\ SumValues(client_notional_change) > client_volume_trigger
                    => current_strategy = STRATEGY_STEALTH
            /\ SumValues(client_notional_change) <= client_volume_trigger
                    => current_strategy = STRATEGY_NORMAL

\* volume exactly client_volume_max and notional exactly client_volume_trigger
StrategyThresholdsWitness ==
    /\ current_strategy = STRATEGY_NORMAL
    /\ WindowVolume(hedger_time) = client_volume_max
    /\ SumValues(client_notional_change) = client_volume_trigger

\* C6: get_hedge_quantities with a label outside the three strategies fails
\* with the error "Unknown hedging strategy", for any arguments, and leaves
\* the queue and both books unchanged.
UnknownStrategyFails ==
    [][current_strategy' \notin SUPPORTED_STRATEGIES =>
        /\ error' = "Unknown hedging strategy"
        /\ UNCHANGED <<execution_queue, client_book, hedge_book, appended, drained>>
      ]_vars

\* the call failed with entries pending in the queue
UnknownStrategyFailsWitness ==
    /\ error = "Unknown hedging strategy"
    /\ current_strategy = "BAD"
    /\ execution_queue # <<>>
    /\ current_positions # <<>>
    /\ client_position_change # <<>>

\* C7: run_hedging terminates, and it returns exactly when the clock is
\* strictly past the latest client trade timestamp and the queue is empty.
DriverStops ==
    /\ (pc = "loop") ~> (pc = "done")
    /\ [](pc = "done" => (hedger_time > end_time /\ execution_queue = <<>>))
    /\ [][(pc = "loop" /\ hedger_time > end_time /\ execution_queue = <<>>)
            => pc' = "done"]_vars

\* the run went on after the last client trade to drain the queue
DriverStopsWitness ==
    /\ pc = "done"
    /\ hedger_time > end_time + 1
    /\ drained # <<>>

\* C8: the queue is FIFO: a step adds entries only at the tail and removes at
\* most the front entry, at most one entry is removed per cycle, and the
\* entries are executed in the order in which they were appended.
QueueIsFifo ==
    /\ [](/\ appended = drained \o execution_queue
          /\ pc \notin {"init"} => Len(drained) <= hedger_time - start_time
          /\ pc = "done" => drained = appended)
    /\ [][LET added == SubSeq(appended', Len(appended) + 1, Len(appended'))
              queued == execution_queue \o added
          IN  /\ Len(appended') >= Len(appended)
              /\ \/ execution_queue' = queued
                 \/ /\ queued # <<>>
                    /\ execution_queue' = Tail(queued)
                    /\ popped' = Head(queued)
                    /\ pc = "loop"
      ]_vars

\* a finished run that drained the chunks of two assets
QueueIsFifoWitness ==
    /\ pc = "done"
    /\ Len(drained) >= 2 * execution_chunks
    /\ \E i \in DOMAIN drained : \E j \in DOMAIN drained :
            drained[i][1][1] # drained[j][1][1]

\* C9 as stated: in a cycle that selects SLOW no hedge order is placed and no
\* trade is booked into the hedge book, whatever the state of the queue.
SlowPlacesNoOrder ==
    [][(pc = "orders" /\ current_strategy = STRATEGY_SLOW) => hedge_book' = hedge_book]_vars

TradesOf(positions, asset) ==
    IF asset \in Keys(positions) THEN Get(positions, asset).trades ELSE <<>>

\* C9 amended: in a cycle that selects SLOW with the queue empty, no order is
\* placed and no trade is booked into the hedge book; with the queue not
\* empty, exactly one trade is booked, that of the entry at the front of the
\* queue.
SlowPlacesOnlyQueuedOrder ==
    [][(pc = "orders" /\ current_strategy = STRATEGY_SLOW) =>
        IF popped = <<>>
        THEN hedge_book' = hedge_book
        ELSE LET asset == popped[1][1]
                 old == TradesOf(hedge_book, asset)
                 new == TradesOf(hedge_book', asset)
             IN  /\ Keys(hedge_book') = Keys(hedge_book) \cup {asset}
                 /\ \A other \in Keys(hedge_book) \ {asset} :
                        Get(hedge_book', other) = Get(hedge_book, other)
                 /\ new = Append(old, new[Len(new)])
                 /\ new[Len(new)].quantity = popped[1][2]
                 /\ new[Len(new)].trade_time = hedger_time
      ]_vars

\* a SLOW cycle that booked client trades, with the queue empty, has placed
\* its orders
SlowPlacesOnlyQueuedOrderWitness ==
    /\ pc = "loop"
    /\ current_strategy = STRATEGY_SLOW
    /\ client_position_change # <<>>
    /\ popped = <<>>
    /\ hedge_book = <<>>

\* C10 as stated: under NORMAL an asset whose change is zero, or that has no
\* change entry, never appears in the result of get_hedge_quantities, in any
\* state of the queue.
NormalNeverEmitsZeroChange ==
    (current_strategy = STRATEGY_NORMAL /\ error = "") =>
        \A asset \in Keys(hedge_quantities) :
            GetOr(client_position_change, asset, 0) # 0

\* C10 amended: under NORMAL an asset whose change is zero, or that has no
\* change entry, never appears in the result of get_hedge_quantities unless
\* it is the asset of the entry popped from the queue in that call; with the
\* queue empty it never appears.
NormalOmitsZeroChange ==
    (current_strategy = STRATEGY_NORMAL /\ error = "") =>
        \A asset \in Keys(hedge_quantities) :
            \/ GetOr(client_position_change, asset, 0) # 0
            \/ popped # <<>> /\ popped[1][1] = asset

\* a NORMAL call whose change has an entry of 0 that is not in the result
NormalOmitsZeroChangeWitness ==
    /\ current_strategy = STRATEGY_NORMAL
    /\ error = ""
    /\ \E asset \in Keys(client_position_change) :
            /\ Get(client_position_change, asset) = 0
            /\ asset \notin Keys(hedge_quantities)
    /\ hedge_quantities # <<>>

----------------------------------------------------------------------------
\* C11: a call under NORMAL that finds the execution queue empty returns, for
\* every asset whose change of this cycle is not zero, the negation of that
\* change and nothing else, whatever the current positions are, and leaves the
\* queue empty.
NormalHedgesChange ==
    (current_strategy = STRATEGY_NORMAL /\ error = "" /\ popped = <<>>) =>
        /\ Keys(hedge_quantities) =
                {asset \in Keys(client_position_change) :
                    Get(client_position_change, asset) # 0}
        /\ \A asset \in Keys(hedge_quantities) :
                Get(hedge_quantities, asset) + Get(client_position_change, asset) = 0
        /\ execution_queue = <<>>

\* a NORMAL call with the queue empty has hedged the change of an asset whose
\* current position is another quantity
NormalHedgesChangeWitness ==
    /\ current_strategy = STRATEGY_NORMAL
    /\ error = ""
    /\ popped = <<>>
    /\ \E asset \in Keys(hedge_quantities) :
            /\ asset \in Keys(current_positions)
            /\ Get(current_positions, asset) # Get(client_position_change, asset)
            /\ Get(hedge_quantities, asset) # 0

\* C12: on the feed of scenario C (a single buy of 400 BTC at 30000, with
\* execution_chunks = 5) the first cycle selects STEALTH; the run terminates,
\* and when it has, the hedge book holds exactly five trades, one booked in
\* each of the first five cycles, each of -80 BTC, the queue is empty and the
\* net BTC position is 0.
ScenarioCRun ==
    /\ []((client_trades = ScenarioC /\ selected # <<>>) =>
            selected[1] = STRATEGY_STEALTH)
    /\ []((client_trades = ScenarioC /\ pc = "done") =>
            /\ Keys(hedge_book) = {"BTC"}
            /\ LET trades == Get(hedge_book, "BTC").trades
               IN  /\ Len(trades) = execution_chunks
                   /\ \A i \in DOMAIN trades :
                        /\ trades[i].trade_time = start_time + i
                        /\ trades[i].quantity = (0 - 80) * Scale
                   /\ SumSeq([i \in DOMAIN trades |-> trades[i].quantity])
                        = (0 - 400) * Scale
            /\ Len(selected) = execution_chunks
            /\ execution_queue = <<>>
            /\ Get(client_book, "BTC").quantity + Get(hedge_book, "BTC").quantity = 0)
    /\ (client_trades = ScenarioC /\ pc = "loop") ~> (pc = "done")

\* the run on the feed of scenario C has returned
ScenarioCRunWitness ==
    /\ client_trades = ScenarioC
    /\ pc = "done"
    /\ hedge_book # <<>>

\* the trades of all the positions of a book
RECURSIVE BookTrades(_)
BookTrades(positions) ==
    IF positions = <<>> THEN <<>>
    ELSE Head(positions)[2].trades \o BookTrades(Tail(positions))

\* the cycles by which the trade booked last into the hedge book trails the
\* cycle that booked the last client trade, 0 if none was booked after it
HedgeLag ==
    LET trades == BookTrades(hedge_book)
        late == {trades[i].trade_time - end_time : i \in DOMAIN trades} \cup {0}
    IN  CHOOSE lag \in late : \A other \in late : other <= lag

\* C13 as stated: the last hedge trade is booked no more than execution_chunks
\* cycles after the cycle that booked the last client trade.
HedgeTrailsByChunks ==
    pc # "init" => HedgeLag <= execution_chunks

\* C13 amended: a STEALTH decision appends execution_chunks entries for every
\* asset of its snapshot, behind the entries still pending, and every cycle
\* books one; the last hedge trade is booked no more than N - 1 cycles after
\* the cycle that booked the last client trade, N being the number of entries
\* the run has appended, at most execution_chunks for every asset of the feed
\* and every minute of the feed that has trades.
HedgeTrailsByQueue ==
    pc # "init" =>
        LET feed_assets == {client_trades[i].asset : i \in DOMAIN client_trades}
            feed_times == {client_trades[i].trade_time : i \in DOMAIN client_trades}
        IN  /\ Len(appended) <=
                    execution_chunks * Cardinality(feed_assets) * Cardinality(feed_times)
            /\ HedgeLag <= IF appended = <<>> THEN 0 ELSE Len(appended) - 1

\* a run has returned whose last hedge trade was booked more than
\* execution_chunks cycles after the last client trade
HedgeTrailsByQueueWitness ==
    /\ pc = "done"
    /\ HedgeLag > execution_chunks
    /\ execution_queue = <<>>

\* the running total of the position a book holds in an asset, 0 if it holds
\* none
QuantityIn(positions, asset) ==
    IF asset \in Keys(positions) THEN Get(positions, asset).quantity ELSE 0

\* C14: the net positions a cycle reads from the portfolio have one key for
\* every asset in which the client book or the hedge book holds a position,
\* also when the quantities sum to 0, and the value of a key is the sum of the
\* quantities of the two books' positions in that asset.
NetPositionsAdditive ==
    pc = "orders" =>
        /\ Len(current_positions) = Cardinality(Keys(current_positions))
        /\ Keys(current_positions) = Keys(client_book) \cup Keys(hedge_book)
        /\ \A asset \in Keys(current_positions) :
                Get(current_positions, asset) =
                    QuantityIn(client_book, asset) + QuantityIn(hedge_book, asset)

\* a cycle has read a net position of 0 in an asset in which both books hold
\* a position that is not 0
NetPositionsAdditiveWitness ==
    /\ pc = "orders"
    /\ \E asset \in Keys(current_positions) :
            /\ Get(current_positions, asset) = 0
            /\ QuantityIn(client_book, asset) # 0
            /\ QuantityIn(hedge_book, asset) # 0

\* the sum of the quantities of the trades with trade_time <= time
RECURSIVE QuantityUpTo(_, _)
QuantityUpTo(trades, time) ==
    IF trades = <<>> THEN 0
    ELSE LET n == Len(trades)
         IN  QuantityUpTo(SubSeq(trades, 1, n - 1), time)
                + (IF trades[n].trade_time <= time THEN trades[n].quantity ELSE 0)

LatestTradeTime(trades) ==
    CHOOSE t \in {trades[i].trade_time : i \in DOMAIN trades} :
        \A i \in DOMAIN trades : trades[i].trade_time <= t

\* C15: get_quantity(t) returns the sum of the quantities of the position's
\* trades with trade_time <= t, in whatever order they were booked; without a
\* time it returns the running total, which is that sum for every t from the
\* latest trade time on.
GetQuantityAsOf ==
    returned # <<>> =>
        LET trades == returned.position.trades
        IN  IF query_time # None
            THEN returned.quantity = QuantityUpTo(trades, query_time)
            ELSE /\ returned.quantity = returned.position.quantity
                 /\ \A t \in LatestTradeTime(trades)..(LatestTradeTime(trades) + 1) :
                        returned.quantity = QuantityUpTo(trades, t)

\* get_quantity was called with the time of the trade booked second on a
\* position whose first trade has a later time
GetQuantityAsOfWitness ==
    /\ returned # <<>>
    /\ LET trades == returned.position.trades
       IN  /\ Len(trades) = 2
           /\ trades[1].trade_time > trades[2].trade_time
           /\ query_time = trades[2].trade_time
           /\ returned.quantity = trades[2].quantity

\* no trade of the position has its trade_time in (t1, t2]
NoTradeBetween(position, t1, t2) ==
    \A i \in DOMAIN position.trades :
        ~(position.trades[i].trade_time > t1 /\ position.trades[i].trade_time <= t2)

\* C16: for t1 <= t2 with no trade of the position in (t1, t2],
\* get_quantity(t1) and get_quantity(t2) are equal: what a call with a time
\* returned is what the position returns for every earlier and every later
\* time that no trade separates from it.
GetQuantityMonotone ==
    (returned # <<>> /\ query_time # None) =>
        LET position == returned.position
        IN  /\ \A t1 \in 0..query_time :
                    NoTradeBetween(position, t1, query_time) =>
                        Position_get_quantity(position, t1) = returned.quantity
            /\ \A t2 \in query_time..(query_time + 2) :
                    NoTradeBetween(position, query_time, t2) =>
                        Position_get_quantity(position, t2) = returned.quantity

\* get_quantity was called with a time later than every trade of a position
\* whose quantity is not 0
GetQuantityMonotoneWitness ==
    /\ returned # <<>>
    /\ query_time # None
    /\ query_time - 1 >= LatestTradeTime(returned.position.trades)
    /\ NoTradeBetween(returned.position, query_time - 1, query_time)
    /\ returned.quantity # 0

\* C17: when the first cycles of a run select SLOW and the next one selects
\* NORMAL or STEALTH, with no client trade after that cycle, the hedges
\* booked from that cycle on leave the net position of every asset at 0 once
\* the run has drained the queue and returned.
SlowRiskIsHedged ==
    (/\ pc = "done"
     /\ \E k \in 2..Len(selected) :
            /\ \A j \in 1..(k - 1) : selected[j] = STRATEGY_SLOW
            /\ selected[k] \in {STRATEGY_NORMAL, STRATEGY_STEALTH}
            /\ end_time <= start_time + k)
    => \A asset \in Keys(client_book) \cup Keys(hedge_book) :
            QuantityIn(client_book, asset) + QuantityIn(hedge_book, asset) = 0

\* C18: a cycle that selects SLOW and finds the execution queue empty gets an
\* empty result from get_hedge_quantities and appends nothing to the queue;
\* a run all of whose cycles selected SLOW has returned with an empty hedge
\* book, the client position unhedged.
SlowHedgesNothing ==
    /\ [][(pc = "loop" /\ pc' = "orders" /\ current_strategy' = STRATEGY_SLOW
              /\ execution_queue = <<>>) =>
            /\ hedge_quantities' = <<>>
            /\ execution_queue' = <<>>
            /\ appended' = appended
         ]_vars
    /\ []((pc = "done" /\ \A i \in DOMAIN selected : selected[i] = STRATEGY_SLOW) =>
            /\ hedge_book = <<>>
            /\ appended = <<>>
            /\ \A asset \in Assets :
                    QuantityIn(client_book, asset) =
                        SumSeq([i \in DOMAIN client_trades |->
                                    IF client_trades[i].asset = asset
                                    THEN client_trades[i].quantity ELSE 0]))

\* a run all of whose cycles selected SLOW has returned, the client book
\* holding a position that is not 0
SlowHedgesNothingWitness ==
    /\ pc = "done"
    /\ selected # <<>>
    /\ \A i \in DOMAIN selected : selected[i] = STRATEGY_SLOW
    /\ \E asset \in Keys(client_book) : QuantityIn(client_book, asset) # 0

\* the row of the feed a trade of the client book was booked from
RowOf(trade) ==
    [trade_time |-> trade.trade_time, asset |-> trade.asset,
     quantity |-> trade.quantity, price |-> trade.price,
     denominated |-> trade.denominated]

\* how many trades of the client book were booked from a row equal to row
BookedCount(positions, row) ==
    LET trades == BookTrades(positions)
    IN  Cardinality({i \in DOMAIN trades : RowOf(trades[i]) = row})

\* how many rows of the feed equal row and have their trade_time in (after, upto]
FeedCount(row, after, upto) ==
    Cardinality({i \in DOMAIN client_trades :
                    /\ client_trades[i] = row
                    /\ client_trades[i].trade_time > after
                    /\ client_trades[i].trade_time <= upto})

FeedQuantity(asset) ==
    SumSeq([i \in DOMAIN client_trades |->
                IF client_trades[i].asset = asset THEN client_trades[i].quantity ELSE 0])

\* C19: the clock starts one minute before the earliest client trade; a tick
\* advances it by one minute and books into the client book exactly the rows
\* of the feed with trade_time in (previous clock, new clock]; when the run
\* has returned every row of the feed has been booked exactly once and the
\* client book's quantity of every asset is the sum of the feed's quantities.
FeedBookedOnce ==
    /\ [][(pc = "init" /\ pc' = "loop") =>
            /\ hedger_time' = start_time'
            /\ \E i \in DOMAIN client_trades' :
                    client_trades'[i].trade_time = hedger_time' + 1
            /\ \A i \in DOMAIN client_trades' :
                    client_trades'[i].trade_time >= hedger_time' + 1
         ]_vars
    /\ [][(pc = "loop" /\ pc' = "orders") =>
            /\ hedger_time' = hedger_time + 1
            /\ \A row \in Rows \cup {ScenarioC[1]} :
                    BookedCount(client_book', row) =
                        BookedCount(client_book, row)
                            + FeedCount(row, hedger_time, hedger_time')
         ]_vars
    /\ [](pc = "done" =>
            /\ \A row \in Rows \cup {ScenarioC[1]} :
                    BookedCount(client_book, row) = FeedCount(row, start_time, end_time)
            /\ Len(BookTrades(client_book)) = Len(client_trades)
            /\ \A asset \in Assets :
                    QuantityIn(client_book, asset) = FeedQuantity(asset))

\* a run has returned on a feed with rows in two different minutes, all of
\* them booked
FeedBookedOnceWitness ==
    /\ pc = "done"
    /\ Len(client_trades) >= 2
    /\ client_trades[1].trade_time < client_trades[Len(client_trades)].trade_time
    /\ Len(BookTrades(client_book)) = Len(client_trades)

\* C20: an order is placed and a hedge trade booked only for the assets whose
\* hedge quantity is not 0: no trade of the hedge book has quantity 0.
NoZeroHedgeTrade ==
    LET trades == BookTrades(hedge_book)
    IN  \A i \in DOMAIN trades : trades[i].quantity # 0

\* C21: a cycle that selects STEALTH on a snapshot of the assets a1..an
\* appends n * execution_chunks entries of one asset each, the entry of chunk
\* c of asset aj at place c * n + j, all the entries of an asset equal; they
\* go behind the entries already pending, which keep their places, and the
\* pop of the cycle then takes the front entry.
StealthInterleavesRoundRobin ==
    [][(pc = "loop" /\ pc' = "orders" /\ current_strategy' = STRATEGY_STEALTH) =>
        LET n == Len(current_positions')
            hedges == stealth_hedges'
            queued == execution_queue \o hedges
        IN  /\ Len(hedges) = n * execution_chunks
            /\ \A c \in 0..(execution_chunks - 1) : \A j \in 1..n :
                    /\ Len(hedges[c * n + j]) = 1
                    /\ hedges[c * n + j][1][1] = current_positions'[j][1]
                    /\ hedges[c * n + j][1][2] = hedges[j][1][2]
            /\ popped' = Head(queued)
            /\ execution_queue' = Tail(queued)
      ]_vars

\* a STEALTH cycle on a snapshot of two assets has appended its entries behind
\* entries pending from an earlier STEALTH cycle
StealthInterleavesRoundRobinWitness ==
    /\ pc = "orders"
    /\ current_strategy = STRATEGY_STEALTH
    /\ Len(current_positions) = 2
    /\ Len(stealth_hedges) = 2 * execution_chunks
    /\ Len(execution_queue) >= Len(stealth_hedges)
    /\ execution_queue[1][1][1] # execution_queue[Len(execution_queue)][1][1]

\* the strategy as a function of the time, the feed and the notional change
StrategyOf(time, notional_change) ==
    IF WindowVolume(time) < client_volume_max THEN STRATEGY_SLOW
    ELSE IF SumValues(notional_change) > client_volume_trigger
         THEN STRATEGY_STEALTH
         ELSE STRATEGY_NORMAL

\* C22: the strategy a cycle selects is a function of the time, the feed and
\* the notional change of the cycle alone, whatever the strategies selected
\* before and whatever the queue holds; and the selection has no effect of
\* its own: in the step that selects it the feed and the hedge book are
\* unchanged, the clock has advanced by the one minute of the tick, the
\* client book has gained the trades booked by the tick and no other, and
\* the queue differs only by the entries get_hedge_quantities appended and
\* the entry it popped.
StrategyIsStateless ==
    [][(pc = "loop" /\ pc' = "orders") =>
        /\ current_strategy' = StrategyOf(hedger_time', client_notional_change')
        /\ <<client_trades, start_time, end_time, hedge_book>>'
                = <<client_trades, start_time, end_time, hedge_book>>
        /\ hedger_time' = hedger_time + 1
        /\ Len(BookTrades(client_book')) =
                Len(BookTrades(client_book)) + Len(client_trades_booked')
        /\ execution_queue \o stealth_hedges' =
                IF popped' = <<>> THEN execution_queue'
                ELSE <<popped'>> \o execution_queue'
      ]_vars

\* a cycle has selected SLOW after a cycle that selected STEALTH, with
\* entries left in the queue
StrategyIsStatelessWitness ==
    /\ pc = "orders"
    /\ Len(selected) >= 2
    /\ selected[Len(selected) - 1] = STRATEGY_STEALTH
    /\ current_strategy = STRATEGY_SLOW
    /\ execution_queue # <<>>

\* the total of the entries of a queue for an asset
QueueTotal(queue, asset) ==
    LET entries == ChunksOf(queue, asset)
    IN  SumSeq([i \in DOMAIN entries |-> entries[i][1][2]])

\* C23: right after the append of a STEALTH decision, before the pop of the
\* cycle, the entries of the queue for every asset of the snapshot, those
\* pending and those just appended, total the negation of the net position
\* in that asset.
QueueTotalNegatesPosition ==
    [][(pc = "loop" /\ pc' = "orders" /\ current_strategy' = STRATEGY_STEALTH) =>
        LET queued == execution_queue \o stealth_hedges'
        IN  \A asset \in Keys(current_positions') :
                QueueTotal(queued, asset) + Get(current_positions', asset) = 0
      ]_vars

\* the rows of the feed with trade_time in (time - time_window, time]
InWindow(time) ==
    {i \in DOMAIN client_trades :
        /\ client_trades[i].trade_time > time - time_window
        /\ client_trades[i].trade_time <= time}

\* C24: a cycle whose trailing window holds only sells, at positive prices
\* and of whatever size, or no trade at all, selects SLOW.
SellOnlyIsSlow ==
    (/\ pc = "orders"
     /\ \A i \in InWindow(hedger_time) :
            client_trades[i].quantity < 0 /\ client_trades[i].price > 0)
    => current_strategy = STRATEGY_SLOW

\* a cycle has selected SLOW with nothing but sells in its window, their
\* notional beyond the STEALTH trigger in size
SellOnlyIsSlowWitness ==
    /\ pc = "orders"
    /\ current_strategy = STRATEGY_SLOW
    /\ InWindow(hedger_time) # {}
    /\ \A i \in InWindow(hedger_time) : client_trades[i].quantity < 0
    /\ \E i \in InWindow(hedger_time) :
            0 - (client_trades[i].quantity \div Scale) * client_trades[i].price
                > client_volume_trigger

\* a cycle has selected SLOW with no trade in its window
EmptyWindowIsSlowWitness ==
    /\ pc = "orders"
    /\ current_strategy = STRATEGY_SLOW
    /\ InWindow(hedger_time) = {}

\* the trades an action added to the position of an asset, if it only added
AddedTrades(old, new, asset) ==
    SubSeq(TradesOf(new, asset), Len(TradesOf(old, asset)) + 1,
           Len(TradesOf(new, asset)))

\* C25: the client book holds only trades of the feed and only the booking
\* step of a cycle changes it; the trades place_hedge_orders executes go into
\* the hedge book and nowhere else, with the clock of their cycle as
\* trade_time, so that the trade times of a hedge position never decrease in
\* booking order and no hedge trade is earlier than every client trade of its
\* asset.
BooksStaySeparate ==
    /\ [](LET trades == BookTrades(client_book)
          IN  \A i \in DOMAIN trades :
                /\ trades[i].book = CLIENT_BOOK
                /\ \E j \in DOMAIN client_trades : RowOf(trades[i]) = client_trades[j])
    /\ [](LET trades == BookTrades(hedge_book)
              booked == BookTrades(client_book)
          IN  \A i \in DOMAIN trades :
                /\ trades[i].book = HEDGE_BOOK
                /\ \E j \in DOMAIN booked :
                        /\ booked[j].asset = trades[i].asset
                        /\ booked[j].trade_time <= trades[i].trade_time)
    /\ [](\A asset \in Keys(hedge_book) :
            LET trades == TradesOf(hedge_book, asset)
            IN  \A i \in DOMAIN trades : \A j \in DOMAIN trades :
                    i < j => trades[i].trade_time <= trades[j].trade_time)
    /\ [][client_book' # client_book => (pc = "loop" /\ pc' = "orders")]_vars
    /\ [][hedge_book' # hedge_book =>
            /\ pc = "orders" /\ pc' = "loop"
            /\ client_book' = client_book
            /\ \A asset \in Keys(hedge_book') :
                    /\ TradesOf(hedge_book', asset) =
                            TradesOf(hedge_book, asset)
                                \o AddedTrades(hedge_book, hedge_book', asset)
                    /\ \A i \in DOMAIN AddedTrades(hedge_book, hedge_book', asset) :
                            AddedTrades(hedge_book, hedge_book', asset)[i].trade_time
                                = hedger_time
         ]_vars

\* the hedge book holds a position with trades of two different cycles, the
\* client book holds trades
BooksStaySeparateWitness ==
    /\ client_book # <<>>
    /\ \E asset \in Keys(hedge_book) :
            LET trades == TradesOf(hedge_book, asset)
            IN  /\ Len(trades) >= 2
                /\ trades[1].trade_time < trades[Len(trades)].trade_time

----------------------------------------------------------------------------
(* The fixed-point representation is exact *)

Divisible(d) == \A i \in DOMAIN d : d[i][2] % execution_chunks = 0

ExactDivision ==
    (pc = "orders" /\ current_strategy = STRATEGY_STEALTH) => Divisible(current_positions)

====
